---------------------------- MODULE Spec2Model ----------------------------
(***************************************************************************)
(* A model of the grid-navigation core of src/utils.py:                    *)
(*   get_valid_moves    (lines 45-114)   the move generator                *)
(*   actions_from_path  (lines 117-152)  path -> compass actions           *)
(*   cached_bfs         (lines 173-179)  the memoising wrapper             *)
(*   bfs_path_length    (lines 182-199)  breadth-first shortest distance   *)
(*                                                                         *)
(* A position is a pair <<a, b>>; get_valid_moves names its components     *)
(* (x, y) and indexes game_map[x, y]; actions_from_path names them (y, x). *)
(* A tile code is modelled by the character it is the code of.             *)
(***************************************************************************)
EXTENDS Integers, Sequences, FiniteSets

VARIABLES
    game_map,     \* the grid: [Cells -> Tiles], shape (XLimit, YLimit)
    mv,           \* the last get_valid_moves call: arguments, result, cells read
    point1,       \* bfs_path_length: start
    point2,       \* bfs_path_length: goal
    pc,           \* bfs_path_length: "idle" | "entry" | "loop" | "done"
    queue,        \* bfs_path_length: the deque of <<position, dist>>
    visited,      \* bfs_path_length: the visited set
    result,       \* bfs_path_length: the returned value
    enq,          \* history: every position appended to the deque, in order
    pops,         \* history: the dist of every popleft, in order
    path_cache,   \* cached_bfs: the dict, a function from keys to distances
    bfs_runs,     \* history: per key, how often cached_bfs ran bfs_path_length
    returned,     \* history: per key, the set of values cached_bfs returned
    last,         \* history: the last cached_bfs call (key, hit, cache before)
    ap            \* the last actions_from_path call: arguments and outcome

bfsVars   == <<point1, point2, pc, queue, visited, result, enq, pops>>
cacheVars == <<path_cache, bfs_runs, returned, last>>
vars == <<game_map, mv, point1, point2, pc, queue, visited, result, enq, pops,
          path_cache, bfs_runs, returned, last, ap>>

---------------------------------------------------------------------------
(* Bounds of the model.                                                    *)

XLimit == 3          \* game_map.shape[0]
YLimit == 3          \* game_map.shape[1]
MaxWalls == 2        \* wall tiles on a grid
MaxCalls == 3        \* cached_bfs calls on one cache
MaxCoord == 1        \* |coordinate| of a position handed to actions_from_path
MaxPathLen == 2      \* len(path) handed to actions_from_path

---------------------------------------------------------------------------
(* Tiles and grids.                                                        *)

Floor  == "."
Stairs == ">"
Wall   == "|"

obstacles == {"|", "-", "}"}

is_wall(position_element) == position_element \in obstacles

Cells == (0 .. XLimit - 1) \X (0 .. YLimit - 1)

WallSets == {W \in SUBSET Cells : Cardinality(W) <= MaxWalls}

StairsSets == {{}} \cup {{c} : c \in Cells}

GridOf(W, S) ==
    [c \in Cells |-> IF c \in W THEN Wall ELSE IF c \in S THEN Stairs ELSE Floor]

\* Grids handed to get_valid_moves: some walls and at most one staircase.
Grids == {GridOf(W, S) : W \in WallSets, S \in StairsSets}

\* Grids handed to bfs_path_length, which never asks to avoid stairs.
GridsBfs == {GridOf(W, {}) : W \in WallSets}

---------------------------------------------------------------------------
(* get_valid_moves.                                                        *)

\* numpy indexing game_map[i, j]: an index in -limit .. -1 wraps around, an
\* index beyond the extent raises IndexError.
At(grid, c) ==
    IF c[1] \in (0 - XLimit) .. (XLimit - 1) /\ c[2] \in (0 - YLimit) .. (YLimit - 1)
    THEN grid[<<c[1] % XLimit, c[2] % YLimit>>]
    ELSE "IndexError"

\* The decrementing guard written `>= 0`: coordinate 0 becomes a destination.
LowGuard_fixed(c) == c - 1 >= 0

\* The decrementing guard written `>= -1`: index -1 is evaluated.
LowGuard_wrap(c) == c - 1 >= 0 - 1

\* The guard of a step that decrements a coordinate: `y - 1 > 0`, `x - 1 > 0`.
LowGuard(c) == c - 1 > 0

\* The guard of a step that increments a coordinate: `x + 1 < x_limit`.
HighGuard(c, limit) == c + 1 < limit

\* The cells a cardinal step tests for a wall.
CardinalCells(dest) == <<dest>>

\* A diagonal step that tests only one of the two corner cells.
DiagonalCells_onecorner(x, y, dx, dy) == << <<x + dx, y + dy>>, <<x, y + dy>> >>

\* The cells a diagonal step tests for a wall, in the order of the `and` chain:
\* the diagonal cell, then the neighbour on the y side, then the one on the x side.
DiagonalCells(x, y, dx, dy) ==
    << <<x + dx, y + dy>>, <<x, y + dy>>, <<x + dx, y>> >>

\* `not is_wall(a) and not is_wall(b) and ...` evaluated left to right: the
\* index of the first wall, or Len(cells) + 1 when there is none.
RECURSIVE FirstWall(_, _, _)
FirstWall(grid, cells, i) ==
    IF i > Len(cells) THEN i
    ELSE IF is_wall(At(grid, cells[i])) THEN i
    ELSE FirstWall(grid, cells, i + 1)

\* One `if <guard> and <no wall>: if not (avoid_stairs and <stairs>): append`.
\* valid: what the block appends; reads: the indices of game_map it evaluates.
Block(grid, guard, cells, dest, avoid_stairs) ==
    IF ~guard THEN [valid |-> <<>>, reads |-> {}]
    ELSE LET w == FirstWall(grid, cells, 1)
             r == {cells[i] : i \in 1 .. (IF w > Len(cells) THEN Len(cells) ELSE w)}
         IN  IF w <= Len(cells) THEN [valid |-> <<>>, reads |-> r]
             ELSE IF avoid_stairs
                  THEN [valid |-> IF At(grid, dest) = Stairs THEN <<>> ELSE <<dest>>,
                        reads |-> r \cup {dest}]
                  ELSE [valid |-> <<dest>>, reads |-> r]

North(grid, x, y, a) ==
    Block(grid, LowGuard(y), CardinalCells(<<x, y - 1>>), <<x, y - 1>>, a)
East(grid, x, y, a) ==
    Block(grid, HighGuard(x, XLimit), CardinalCells(<<x + 1, y>>), <<x + 1, y>>, a)
South(grid, x, y, a) ==
    Block(grid, HighGuard(y, YLimit), CardinalCells(<<x, y + 1>>), <<x, y + 1>>, a)
West(grid, x, y, a) ==
    Block(grid, LowGuard(x), CardinalCells(<<x - 1, y>>), <<x - 1, y>>, a)
NorthEast(grid, x, y, a) ==
    Block(grid, LowGuard(y) /\ HighGuard(x, XLimit),
          DiagonalCells(x, y, 1, 0 - 1), <<x + 1, y - 1>>, a)
NorthWest(grid, x, y, a) ==
    Block(grid, LowGuard(y) /\ LowGuard(x),
          DiagonalCells(x, y, 0 - 1, 0 - 1), <<x - 1, y - 1>>, a)
SouthEast(grid, x, y, a) ==
    Block(grid, HighGuard(y, YLimit) /\ HighGuard(x, XLimit),
          DiagonalCells(x, y, 1, 1), <<x + 1, y + 1>>, a)
SouthWest(grid, x, y, a) ==
    Block(grid, HighGuard(y, YLimit) /\ LowGuard(x),
          DiagonalCells(x, y, 0 - 1, 1), <<x - 1, y + 1>>, a)

get_valid_moves(grid, current_position, avoid_stairs, allow_diagonals) ==
    LET x == current_position[1]
        y == current_position[2]
        n == North(grid, x, y, avoid_stairs)
        e == East(grid, x, y, avoid_stairs)
        s == South(grid, x, y, avoid_stairs)
        w == West(grid, x, y, avoid_stairs)
        card == [valid |-> n.valid \o e.valid \o s.valid \o w.valid,
                 reads |-> n.reads \cup e.reads \cup s.reads \cup w.reads]
    IN  IF ~allow_diagonals THEN card
        ELSE LET ne == NorthEast(grid, x, y, avoid_stairs)
                 nw == NorthWest(grid, x, y, avoid_stairs)
                 se == SouthEast(grid, x, y, avoid_stairs)
                 sw == SouthWest(grid, x, y, avoid_stairs)
             IN  [valid |-> card.valid \o ne.valid \o nw.valid \o se.valid \o sw.valid,
                  reads |-> card.reads \cup ne.reads \cup nw.reads
                                \cup se.reads \cup sw.reads]

---------------------------------------------------------------------------
(* bfs_path_length.                                                        *)

\* The returned value: an int, or float('inf').
Dist(n) == [inf |-> FALSE, value |-> n]
Inf == [inf |-> TRUE, value |-> 0]

\* `queue.pop()`: the deque used as a stack.
popleft_lifo(q) == [item |-> q[Len(q)], rest |-> SubSeq(q, 1, Len(q) - 1)]

\* `queue.popleft()`: the head of the deque and what is left of it.
popleft(q) == [item |-> Head(q), rest |-> Tail(q)]

\* A search that never marks a position visited.
visited_add_forgotten(seen, n) == seen

\* `visited.add((nx, ny))`.
visited_add(seen, n) == seen \cup {n}

\* The state of one run: the deque, the visited set, whether the run has
\* returned and what, and the history of appends and pops.
BfsEntry(start) ==
    [queue |-> << <<start, 0>> >>, visited |-> visited_add({}, start),
     done |-> FALSE, result |-> Inf, enq |-> <<>>, pops |-> <<>>]

\* The body of `for nx, ny in get_valid_moves(...)`, from the i-th move on.
\* The state st0 is bound once to st, as a local of the code is.
RECURSIVE ForMoves(_, _, _, _, _)
ForMoves(st0, moves, i, dist, goal) ==
    CHOOSE out \in
        {IF i > Len(moves) THEN st
         ELSE IF moves[i] = goal
              THEN [st EXCEPT !.done = TRUE, !.result = Dist(dist + 1)]
         ELSE IF moves[i] \notin st.visited
              THEN ForMoves([st EXCEPT !.visited = visited_add(@, moves[i]),
                                       !.queue = Append(@, <<moves[i], dist + 1>>),
                                       !.enq = Append(@, moves[i])],
                            moves, i + 1, dist, goal)
         ELSE ForMoves(st, moves, i + 1, dist, goal) : st \in {st0}} : TRUE

\* One iteration of `while queue:`; the moves of the popped position are
\* computed once.
Expand(grid, st, goal) ==
    CHOOSE out \in
        {ForMoves([st EXCEPT !.queue = h.rest, !.pops = Append(@, h.item[2])],
                  get_valid_moves(grid, h.item[1], FALSE, TRUE).valid,
                  1, h.item[2], goal) : h \in {popleft(st.queue)}} : TRUE

RECURSIVE WhileQueue(_, _, _)
WhileQueue(grid, st, goal) ==
    IF st.done THEN st.result
    ELSE IF st.queue = <<>> THEN Inf
    ELSE WhileQueue(grid, Expand(grid, st, goal), goal)

bfs_path_length(grid, p1, p2) ==
    IF p1 = p2 THEN Dist(0) ELSE WhileQueue(grid, BfsEntry(p1), p2)

---------------------------------------------------------------------------
(* The specification of one run of bfs_path_length, one action per         *)
(* iteration of its loop.  The function is sequential code that keeps      *)
(* running until it returns: weak fairness of its steps.                   *)

IdleMoves == mv = [called |-> FALSE, current_position |-> <<0, 0>>,
                   avoid_stairs |-> FALSE, allow_diagonals |-> FALSE,
                   valid |-> <<>>, reads |-> {}]

IdleCache ==
    /\ path_cache = <<>> /\ bfs_runs = <<>> /\ returned = <<>>
    /\ last = [called |-> FALSE]

IdleActions == ap = [called |-> FALSE, start |-> <<0, 0>>, path |-> <<>>,
                     raised |-> FALSE, actions |-> <<>>]

IdleBfs ==
    /\ point1 = <<0, 0>> /\ point2 = <<0, 0>> /\ pc = "idle"
    /\ queue = <<>> /\ visited = {} /\ result = Inf
    /\ enq = <<>> /\ pops = <<>>

InitBfs ==
    /\ game_map \in GridsBfs
    /\ point1 \in Cells /\ point2 \in Cells
    /\ pc = "entry"
    /\ queue = <<>> /\ visited = {} /\ result = Inf /\ enq = <<>> /\ pops = <<>>
    /\ IdleMoves /\ IdleCache /\ IdleActions

\* Lines 184-189: the start == goal shortcut, or the deque and the visited set.
BfsEnter ==
    /\ pc = "entry"
    /\ IF point1 = point2
       THEN /\ pc' = "done" /\ result' = Dist(0)
            /\ UNCHANGED <<queue, visited>>
       ELSE /\ pc' = "loop"
            /\ queue' = BfsEntry(point1).queue
            /\ visited' = BfsEntry(point1).visited
            /\ UNCHANGED result
    /\ UNCHANGED <<game_map, point1, point2, enq, pops, mv, cacheVars, ap>>

\* Lines 191-198: one iteration of the loop, returning when it generates goal.
BfsExpand ==
    /\ pc = "loop" /\ queue # <<>>
    /\ \E st \in {Expand(game_map,
                        [queue |-> queue, visited |-> visited, done |-> FALSE,
                         result |-> result, enq |-> enq, pops |-> pops],
                        point2)} :
           /\ queue' = st.queue /\ visited' = st.visited
           /\ enq' = st.enq /\ pops' = st.pops
           /\ result' = st.result
           /\ pc' = IF st.done THEN "done" ELSE "loop"
    /\ UNCHANGED <<game_map, point1, point2, mv, cacheVars, ap>>

\* Line 199: the deque is empty.
BfsExhaust ==
    /\ pc = "loop" /\ queue = <<>>
    /\ pc' = "done" /\ result' = Inf
    /\ UNCHANGED <<game_map, point1, point2, queue, visited, enq, pops,
                   mv, cacheVars, ap>>

NextBfs == BfsEnter \/ BfsExpand \/ BfsExhaust

SpecBfs == InitBfs /\ [][NextBfs]_vars /\ WF_vars(NextBfs)

---------------------------------------------------------------------------
(* cached_bfs, and the specification of a sequence of calls that share one *)
(* cache and one grid.                                                     *)

\* The number of cached_bfs calls made so far.
Calls == IF last.called THEN last.calls ELSE 0

\* Positions the calls draw start and goal from.
Probe == {<<0, 1>>, <<1, 1>>}

HasKey(d, k) == k \in DOMAIN d

\* `d[k] = v` on a dict.
DictSet(d, k, v) == [x \in DOMAIN d \cup {k} |-> IF x = k THEN v ELSE d[x]]

\* The key built in the other order.
cache_key_swapped(start, goal) == <<goal, start>>

\* `key = (start, goal)`.
cache_key(start, goal) == <<start, goal>>

\* The dict after the call, the value returned, and whether the search ran.
cached_bfs(grid, start, goal, cache) ==
    LET key == cache_key(start, goal)
    IN  IF HasKey(cache, key)
        THEN [cache |-> cache, ret |-> cache[key], ran |-> FALSE]
        ELSE LET dist == bfs_path_length(grid, start, goal)
             IN  [cache |-> DictSet(cache, key, dist), ret |-> dist, ran |-> TRUE]

InitCache ==
    /\ game_map \in GridsBfs
    /\ IdleCache
    /\ IdleMoves /\ IdleBfs /\ IdleActions

CachedBfs ==
    /\ Calls < MaxCalls
    /\ \E start \in Probe, goal \in Probe :
        LET r == cached_bfs(game_map, start, goal, path_cache)
            k == <<start, goal>>
        IN  /\ path_cache' = r.cache
            /\ bfs_runs' = IF r.ran
                           THEN DictSet(bfs_runs, k,
                                        IF HasKey(bfs_runs, k) THEN bfs_runs[k] + 1 ELSE 1)
                           ELSE bfs_runs
            /\ returned' = DictSet(returned, k,
                                   (IF HasKey(returned, k) THEN returned[k] ELSE {})
                                       \cup {r.ret})
            /\ last' = [called |-> TRUE, key |-> k, ran |-> r.ran, ret |-> r.ret,
                        before |-> path_cache, calls |-> Calls + 1]
            /\ UNCHANGED <<game_map, mv, bfsVars, ap>>

NextCache == CachedBfs

SpecCache == InitCache /\ [][NextCache]_vars

---------------------------------------------------------------------------
(* actions_from_path, and its specification as a pure function.            *)

action_map == [N |-> 0, E |-> 1, S |-> 2, W |-> 3, NE |-> 4, SE |-> 5, SW |-> 6, NW |-> 7]

\* The unpacking `x_s, y_s = start`: the first component is x.
unpack_xy(pos) == [y |-> pos[2], x |-> pos[1]]

\* `y_s, x_s = start` and `for (y, x) in path`: the first component is y.
unpack(pos) == [y |-> pos[1], x |-> pos[2]]

\* The diagonal branch with NW and NE exchanged.
diagonal_swapped(y_s, x_s, y, x) ==
    IF y_s > y /\ x_s > x THEN action_map.NE
    ELSE IF y_s > y /\ x_s < x THEN action_map.NW
    ELSE IF y_s < y /\ x_s > x THEN action_map.SW
    ELSE action_map.SE

\* Lines 140-147: the branch taken when both components differ.
diagonal(y_s, x_s, y, x) ==
    IF y_s > y /\ x_s > x THEN action_map.NW
    ELSE IF y_s > y /\ x_s < x THEN action_map.NE
    ELSE IF y_s < y /\ x_s > x THEN action_map.SW
    ELSE action_map.SE

\* Lines 129-147: the action appended for one position of the path.
action_of(y_s, x_s, y, x) ==
    IF x_s = x THEN (IF y_s > y THEN action_map.N ELSE action_map.S)
    ELSE IF y_s = y THEN (IF x_s > x THEN action_map.W ELSE action_map.E)
    ELSE diagonal(y_s, x_s, y, x)

\* The loop of lines 128-150 from the i-th position on.
RECURSIVE ForPath(_, _, _, _)
ForPath(prev, path, i, actions) ==
    IF i > Len(path) THEN actions
    ELSE LET s == unpack(prev)
             c == unpack(path[i])
         IN  ForPath(path[i], path, i + 1,
                     Append(actions, action_of(s.y, s.x, c.y, c.x)))

\* The function has no raise and no operation that can fail on pairs of ints.
actions_from_path(start, path) ==
    [raised |-> FALSE, actions |-> ForPath(start, path, 1, <<>>)]

Coords == (0 - MaxCoord) .. MaxCoord

Positions == Coords \X Coords

Paths == UNION {[1 .. n -> Positions] : n \in 0 .. MaxPathLen}

InitActions ==
    /\ game_map = GridOf({}, {})
    /\ IdleActions
    /\ IdleMoves /\ IdleBfs /\ IdleCache

ActionsFromPath ==
    /\ ~ap.called
    /\ \E start \in Positions, path \in Paths :
        LET r == actions_from_path(start, path)
        IN  /\ ap' = [called |-> TRUE, start |-> start, path |-> path,
                      raised |-> r.raised, actions |-> r.actions]
            /\ UNCHANGED <<game_map, mv, bfsVars, cacheVars>>

NextActions == ActionsFromPath

SpecActions == InitActions /\ [][NextActions]_vars

---------------------------------------------------------------------------
(* The specification of get_valid_moves as a pure function: the grid is    *)
(* drawn at the start, every call draws a position and the two flags.      *)

InitMoves ==
    /\ game_map \in Grids
    /\ IdleMoves
    /\ IdleBfs /\ IdleCache /\ IdleActions

GetValidMoves ==
    /\ ~mv.called
    /\ \E p \in Cells, avoid \in BOOLEAN, diag \in BOOLEAN :
        LET r == get_valid_moves(game_map, p, avoid, diag)
        IN  /\ mv' = [called |-> TRUE, current_position |-> p, avoid_stairs |-> avoid,
                      allow_diagonals |-> diag, valid |-> r.valid, reads |-> r.reads]
            /\ UNCHANGED <<game_map, bfsVars, cacheVars, ap>>

NextMoves == GetValidMoves

SpecMoves == InitMoves /\ [][NextMoves]_vars

---------------------------------------------------------------------------
(* Claims about get_valid_moves (under SpecMoves).                         *)

InGrid(c) == c[1] \in 0 .. XLimit - 1 /\ c[2] \in 0 .. YLimit - 1

Abs(n) == IF n < 0 THEN 0 - n ELSE n

IsDiagonalOf(d, p) == Abs(d[1] - p[1]) = 1 /\ Abs(d[2] - p[2]) = 1

MvValid == {mv.valid[i] : i \in DOMAIN mv.valid}

\* The two cardinal neighbours of p that share an edge with the diagonal d.
CornersOf(d, p) == {<<d[1], p[2]>>, <<p[1], d[2]>>}

\* C4: with allow_diagonals, a diagonal neighbour of p is returned only if
\* both cardinal neighbours of p edge-adjacent to it are non-wall tiles of
\* the grid, whatever avoid_stairs is.
C4_NoCornerCutting ==
    (mv.called /\ mv.allow_diagonals) =>
        \A d \in MvValid :
            IsDiagonalOf(d, mv.current_position) =>
                \A c \in CornersOf(d, mv.current_position) :
                    InGrid(c) /\ ~is_wall(game_map[c])

\* C4 witness: a call that withholds a diagonal whose own cell is floor and
\* passes the bounds guards, because one of the two corner cells is a wall.
C4_Witness ==
    /\ mv.called /\ mv.allow_diagonals /\ ~mv.avoid_stairs
    /\ mv.valid # <<>>
    /\ \E d \in Cells :
        /\ IsDiagonalOf(d, mv.current_position)
        /\ d[1] > 0 /\ d[2] > 0
        /\ game_map[d] = Floor
        /\ d \notin MvValid
        /\ \E c \in CornersOf(d, mv.current_position) : is_wall(game_map[c])
        /\ \E c \in CornersOf(d, mv.current_position) : game_map[c] = Floor

\* C5: every returned position lies inside the grid's shape, and every index
\* of game_map the call evaluates lies inside it too (no negative index).
C5_InBounds ==
    mv.called =>
        /\ \A d \in MvValid : InGrid(d)
        /\ \A c \in mv.reads : InGrid(c)

\* C5 witness: a call from a cell on the low and on the high border (a
\* corner of the grid) that still reads cells and returns moves.
C5_Witness ==
    /\ mv.called
    /\ mv.current_position = <<0, YLimit - 1>>
    /\ mv.reads # {} /\ mv.valid # <<>>

\* C8 as stated: no returned position has a coordinate equal to 0.
C8_Original ==
    mv.called => \A d \in MvValid : d[1] # 0 /\ d[2] # 0

\* C8 as amended: no returned move lowers a coordinate to 0; a returned
\* position has a coordinate 0 only where the current position has it.
C8_NeverLoweredToZero ==
    mv.called =>
        \A d \in MvValid :
            /\ d[1] = 0 => mv.current_position[1] = 0
            /\ d[2] = 0 => mv.current_position[2] = 0

\* C8 witness: from a cell with coordinate 1 whose lower neighbour is floor,
\* the neighbour at coordinate 0 is withheld while another move is returned.
C8_Witness ==
    /\ mv.called
    /\ mv.current_position = <<1, 1>>
    /\ game_map[<<0, 1>>] = Floor /\ game_map[<<1, 0>>] = Floor
    /\ <<0, 1>> \notin MvValid /\ <<1, 0>> \notin MvValid
    /\ mv.valid # <<>>

---------------------------------------------------------------------------
(* Claims about bfs_path_length (under SpecBfs).                           *)

\* The move graph of the claims: the edges get_valid_moves gives with
\* avoid_stairs=False and allow_diagonals=True.
Edges(grid, p) ==
    LET m == get_valid_moves(grid, p, FALSE, TRUE).valid
    IN  {m[i] : i \in DOMAIN m}

\* The least number of edges of a path from s to g: R holds the positions
\* at most k steps from s, F those exactly k steps from s.
RECURSIVE Levels(_, _, _, _, _)
Levels(grid, R, F, g, k) ==
    IF g \in F THEN Dist(k)
    ELSE IF F = {} THEN Inf
    ELSE LET next == (UNION {Edges(grid, p) : p \in F}) \ R
         IN  Levels(grid, R \cup next, next, g, k + 1)

MinSteps(grid, s, g) == Levels(grid, {s}, {s}, g, 0)

\* C1: the value returned is 0 for start == goal, else the least number of
\* steps of a path from start to goal in the move graph, and float('inf')
\* exactly when there is no such path.
C1_ShortestDistance ==
    pc = "done" =>
        /\ point1 = point2 => result = Dist(0)
        /\ result = MinSteps(game_map, point1, point2)

\* C1 witness: a finished search around a wall that found a path of three
\* steps or more.
C1_Witness ==
    /\ pc = "done" /\ ~result.inf /\ result.value >= 3
    /\ \E c \in Cells : is_wall(game_map[c])

\* C2 as stated: when the goal is reachable from the start, the distance in
\* the other direction is the same.
C2_Symmetric ==
    (pc = "done" /\ ~result.inf) =>
        bfs_path_length(game_map, point2, point1) = result

\* C10, the part that holds in every state of a run: no position is appended
\* to the deque twice and start never is, every appended position is in the
\* visited set, the popped distances never decrease, there are at most
\* rows x cols pops, and a finished run returned either dist + 1 of the node
\* popped last or float('inf') with the deque empty.
C10_Safety ==
    /\ \A i, j \in DOMAIN enq : enq[i] = enq[j] => i = j
    /\ \A i \in DOMAIN enq : enq[i] # point1 /\ enq[i] \in visited
    /\ pc = "loop" => point1 \in visited
    /\ \A i \in DOMAIN queue : queue[i][1] \in visited
    /\ \A i, j \in DOMAIN pops : i <= j => pops[i] <= pops[j]
    /\ Len(pops) <= XLimit * YLimit
    /\ Len(pops) <= Len(enq) + 1
    /\ (pc = "done" /\ point1 # point2) =>
          IF result.inf THEN queue = <<>>
          ELSE pops # <<>> /\ result.value = pops[Len(pops)] + 1

\* C10: the safety part in every state, and every run terminates.
C10_BoundedTermination == []C10_Safety /\ <>(pc = "done")

\* C10 witness: a search that ran dry after expanding several positions at
\* more than one distance.
C10_Witness ==
    /\ pc = "done" /\ result.inf
    /\ Len(pops) >= 4 /\ pops[Len(pops)] >= 2

---------------------------------------------------------------------------
(* Claims about cached_bfs (under SpecCache).                              *)

\* C3: calls with the same ordered key return one value, the search runs at
\* most once per ordered key, a hit leaves the dict as it was, and a miss
\* adds the key (start, goal) and nothing else, keeping every entry.
C3_WriteOnceCache ==
    /\ \A k \in DOMAIN returned : Cardinality(returned[k]) = 1
    /\ \A k \in DOMAIN bfs_runs : bfs_runs[k] <= 1
    /\ DOMAIN path_cache = DOMAIN returned
    /\ \A k \in DOMAIN path_cache : returned[k] = {path_cache[k]}
    /\ last.called =>
        /\ \A k \in DOMAIN last.before :
              HasKey(path_cache, k) /\ path_cache[k] = last.before[k]
        /\ HasKey(last.before, last.key) <=> ~last.ran
        /\ ~last.ran => path_cache = last.before
        /\ last.ran => DOMAIN path_cache = DOMAIN last.before \cup {last.key}
        /\ path_cache[last.key] = last.ret

\* C3 witness: a key asked for twice (the second call a hit), with the
\* reversed key never asked for and absent from the dict.
C3_Witness ==
    /\ last.called /\ ~last.ran /\ last.calls >= 2
    /\ last.key[1] # last.key[2]
    /\ ~HasKey(path_cache, <<last.key[2], last.key[1]>>)
    /\ bfs_runs[last.key] = 1

---------------------------------------------------------------------------
(* Claims about actions_from_path (under SpecActions).                     *)

\* The previous position of the i-th position of the path.
Prev(i) == IF i = 1 THEN ap.start ELSE ap.path[i - 1]

\* A displacement that is one of the 8 unit compass steps.
UnitStep(a, b) ==
    /\ Abs(b[1] - a[1]) <= 1 /\ Abs(b[2] - a[2]) <= 1
    /\ a # b

\* The displacement of an action on a position <<y, x>>: N/S move y by
\* -1/+1, W/E move x by -1/+1, the diagonals combine both.
Move(pos, a) ==
    LET dy == IF a \in {action_map.N, action_map.NE, action_map.NW} THEN 0 - 1
              ELSE IF a \in {action_map.S, action_map.SE, action_map.SW} THEN 1
              ELSE 0
        dx == IF a \in {action_map.W, action_map.NW, action_map.SW} THEN 0 - 1
              ELSE IF a \in {action_map.E, action_map.NE, action_map.SE} THEN 1
              ELSE 0
    IN  <<pos[1] + dy, pos[2] + dx>>

RECURSIVE Replay(_, _, _, _)
Replay(pos, actions, i, out) ==
    IF i > Len(actions) THEN out
    ELSE Replay(Move(pos, actions[i]), actions, i + 1,
                Append(out, Move(pos, actions[i])))

\* C6: on a path of unit steps the function returns len(path) actions, and
\* replaying them from start gives the path back.
C6_RoundTrip ==
    (ap.called /\ \A i \in DOMAIN ap.path : UnitStep(Prev(i), ap.path[i])) =>
        /\ ~ap.raised
        /\ Len(ap.actions) = Len(ap.path)
        /\ Replay(ap.start, ap.actions, 1, <<>>) = ap.path

\* C6 witness: a path of two unit steps, a diagonal one and a cardinal one.
C6_Witness ==
    /\ ap.called /\ Len(ap.path) = 2
    /\ \A i \in DOMAIN ap.path : UnitStep(Prev(i), ap.path[i])
    /\ \E i \in DOMAIN ap.path : ap.actions[i] \in {action_map.NE, action_map.SW}
    /\ \E i \in DOMAIN ap.path : ap.actions[i] \in {action_map.N, action_map.E}

\* The action a unit cardinal step gets when the component at index yi is y
\* and the one at index xi is x: N/S for y falling/rising with x kept, W/E
\* for x falling/rising with y kept.
CardinalAs(a, b, yi, xi) ==
    IF b[xi] = a[xi] /\ b[yi] = a[yi] - 1 THEN {action_map.N}
    ELSE IF b[xi] = a[xi] /\ b[yi] = a[yi] + 1 THEN {action_map.S}
    ELSE IF b[yi] = a[yi] /\ b[xi] = a[xi] - 1 THEN {action_map.W}
    ELSE IF b[yi] = a[yi] /\ b[xi] = a[xi] + 1 THEN {action_map.E}
    ELSE {}

C9_InvalidStepFails ==
    (ap.called /\ \E i \in DOMAIN ap.path : ~UnitStep(Prev(i), ap.path[i])) =>
        ap.raised

=============================================================================
